---- MODULE Spec2Model ----
(***************************************************************************)
(* Model of the resumable-session core of mc:                              *)
(*   - isCopiedFactory          (src/session-v4.go)  resume skip predicate *)
(*   - prepareSyncURLs          (src/sync-url.go)    sync fan-out planner  *)
(*   - sessionV4 and its files  (src/session-v4.go)  session manager       *)
(*   - migrateSessionV3ToV4     (src/session-v4.go)  version sweep         *)
(*   - Save, Close, Delete      (src/session-v4.go)  the session mutex     *)
(* Each component has its own specification over its own variables; the    *)
(* variables of the other components stay at their idle values.            *)
(***************************************************************************)
EXTENDS Integers, Sequences, FiniteSets, TLC

VARIABLES
    \* ---- resume skip predicate (closure of isCopiedFactory) ----
    lastCopied,     \* the captured marker
    copied,         \* the captured mutable flag
    skipCalls,      \* inputs presented so far, in call order
    skipResults,    \* value returned by each call
    skipFatal,      \* the process died in fatalIf
    \* ---- sync fan-out planner ----
    targetURLs,     \* the target list handed to prepareSyncURLs
    tgtIdx,         \* position of the range loop (1-based)
    pending,        \* entries the producer still has to send for the current target
    syncPC,         \* "loop" | "send" | "done"
    received,       \* entries the consumer has received, in order
    chClosed,       \* syncURLsCh is closed
    closeCount,     \* number of times close(syncURLsCh) ran
    sawEOS,         \* the consumer observed end-of-stream
    \* ---- session directory on disk ----
    sessionDirExists, \* the session directory exists
    hdrFile,        \* per session ID: the header file
    dataFile,       \* per session ID: the data-log file (contents, and what is on stable storage)
    \* ---- session manager (in-memory sessionV4 values) ----
    sess,           \* per session ID: the sessionV4 value of the process, if any
    last,           \* the most recent session operation and what it returned
    dead,           \* the process ended in fatalIf
    \* ---- version sweep ----
    sweepOrder,     \* the IDs returned by getSessionIDs, in its order
    sweepIdx,       \* position of the range loop (1-based)
    sweepPC,        \* "idle" | "run" | "done" | "fatal"
    disk0,          \* per session ID: the header version on disk when the sweep started
    \* ---- tasks calling Save, Close and Delete on one session ----
    mutex,          \* the task holding the session's sync.Mutex, or ""
    tpc             \* per task: the method it is in and the statement it is at

skipVars == <<lastCopied, copied, skipCalls, skipResults, skipFatal>>
syncVars == <<targetURLs, tgtIdx, pending, syncPC, received, chClosed, closeCount, sawEOS>>
diskVars == <<sessionDirExists, hdrFile, dataFile>>
sessVars == <<sess, last, dead>>
migrVars == <<sweepOrder, sweepIdx, sweepPC, disk0>>
lockVars == <<mutex, tpc>>
vars == <<skipVars, syncVars, diskVars, sessVars, migrVars, lockVars>>

\* What an action of one component leaves alone.
skipOthers == <<syncVars, diskVars, sessVars, migrVars, lockVars>>
syncOthers == <<skipVars, diskVars, sessVars, migrVars, lockVars>>
sessOthers == <<skipVars, syncVars, migrVars, lockVars>>
migrOthers == <<skipVars, syncVars, sessVars, lockVars>>
lockOthers == <<skipVars, syncVars, migrVars>>

(***************************************************************************)
(* Bounds                                                                  *)
(***************************************************************************)
MaxCalls == 4
MaxTargets == 3

(***************************************************************************)
(* Resume skip predicate                                                   *)
(***************************************************************************)
URLs == {"a", "b", "c"}
Markers == {"", "a", "b", "z"}

SkipIdle ==
    /\ lastCopied = ""
    /\ copied = TRUE
    /\ skipCalls = <<>>
    /\ skipResults = <<>>
    /\ skipFatal = FALSE

\* isCopiedFactory(lastCopied): the closure starts with copied = true.
SkipInit ==
    /\ lastCopied \in Markers
    /\ copied = TRUE
    /\ skipCalls = <<>>
    /\ skipResults = <<>>
    /\ skipFatal = FALSE

\* Mutant: the matching call already answers false.
isCopied_EarlyFalse(lc, cp, sourceURL) ==
    IF lc = "" THEN [ret |-> FALSE, copied |-> cp]
    ELSE IF cp
         THEN [ret |-> (lc # sourceURL), copied |-> (lc # sourceURL)]
         ELSE [ret |-> FALSE, copied |-> cp]

\* Mutant: any URL other than the marker ends the skipping.
isCopied_Inverted(lc, cp, sourceURL) ==
    IF lc = "" THEN [ret |-> FALSE, copied |-> cp]
    ELSE IF cp
         THEN [ret |-> TRUE, copied |-> (lc = sourceURL)]
         ELSE [ret |-> FALSE, copied |-> cp]

\* Body of the closure for a non-empty sourceURL: the value returned and
\* the new value of the captured flag.
isCopied(lc, cp, sourceURL) ==
    IF lc = "" THEN [ret |-> FALSE, copied |-> cp]
    ELSE IF cp
         THEN [ret |-> TRUE, copied |-> IF lc = sourceURL THEN FALSE ELSE cp]
         ELSE [ret |-> FALSE, copied |-> cp]

\* A call with a non-empty URL.
SkipCall(u) ==
    /\ ~skipFatal
    /\ Len(skipCalls) < MaxCalls
    /\ u # ""
    /\ LET r == isCopied(lastCopied, copied, u) IN
         /\ copied' = r.copied
         /\ skipResults' = Append(skipResults, r.ret)
    /\ skipCalls' = Append(skipCalls, u)
    /\ UNCHANGED <<lastCopied, skipFatal>>
    /\ UNCHANGED skipOthers

\* Mutant: the empty URL is answered like any other URL.
SkipCallEmpty_FallsThrough ==
    /\ ~skipFatal
    /\ Len(skipCalls) < MaxCalls
    /\ LET r == isCopied(lastCopied, copied, "") IN
         /\ copied' = r.copied
         /\ skipResults' = Append(skipResults, r.ret)
    /\ skipCalls' = Append(skipCalls, "")
    /\ UNCHANGED <<lastCopied, skipFatal>>
    /\ UNCHANGED skipOthers

\* A call with the empty URL: fatalIf(errInvalidArgument) ends the process.
SkipCallEmpty ==
    /\ ~skipFatal
    /\ skipFatal' = TRUE
    /\ UNCHANGED <<lastCopied, copied, skipCalls, skipResults>>
    /\ UNCHANGED skipOthers

SkipNext ==
    \/ \E u \in URLs : SkipCall(u)
    \/ SkipCallEmpty

(***************************************************************************)
(* Sync fan-out planner                                                    *)
(***************************************************************************)
Targets == {"f2", "d1", "dset", "dnone", "tree", "trees", "bad"}

\* guessCopyURLType([]string{sourceURL}, targetURL): total over the five
\* shape tags plus a reject tag.
guessCopyURLType(t) ==
    CASE t = "f2"    -> "A"
      [] t = "d1"    -> "B"
      [] t = "dset"  -> "C"
      [] t = "dnone" -> "C"
      [] t = "tree"  -> "D"
      [] t = "trees" -> "E"
      [] OTHER       -> "Invalid"

Job(k, t, n) == [tgt |-> k, url |-> t, kind |-> "job", err |-> "", n |-> n]
ErrEntry(k, t) == [tgt |-> k, url |-> t, kind |-> "error", err |-> "InvalidArgument", n |-> 1]

\* prepareCopyURLsTypeA / prepareCopyURLsTypeB: one cpURLs value.
prepareCopyURLsTypeAB(k, t) == Job(k, t, 1)

\* prepareCopyURLsTypeC: the entries of the sub-channel, in its own order.
prepareCopyURLsTypeC(k, t) ==
    IF t = "dset" THEN <<Job(k, t, 1), Job(k, t, 2)>> ELSE <<>>

RECURSIVE ReverseSeq(_)
ReverseSeq(s) == IF s = <<>> THEN <<>> ELSE Append(ReverseSeq(Tail(s)), Head(s))

\* Mutant: the sub-stream of a shape-C target is forwarded in reverse.
SwitchCase_ReverseC(k, t) ==
    LET shape == guessCopyURLType(t) IN
    CASE shape = "A" -> <<prepareCopyURLsTypeAB(k, t)>>
      [] shape = "B" -> <<prepareCopyURLsTypeAB(k, t)>>
      [] shape = "C" -> ReverseSeq(prepareCopyURLsTypeC(k, t))
      [] OTHER       -> <<ErrEntry(k, t)>>

\* The switch of the loop body: what the producer sends for target k.
SwitchCase(k, t) ==
    LET shape == guessCopyURLType(t) IN
    CASE shape = "A" -> <<prepareCopyURLsTypeAB(k, t)>>
      [] shape = "B" -> <<prepareCopyURLsTypeAB(k, t)>>
      [] shape = "C" -> prepareCopyURLsTypeC(k, t)
      [] OTHER       -> <<ErrEntry(k, t)>>

RECURSIVE SeqsUpTo(_, _)
SeqsUpTo(S, n) ==
    IF n = 0 THEN {<<>>}
    ELSE LET shorter == SeqsUpTo(S, n - 1) IN
         shorter \cup {Append(q, x) : q \in {r \in shorter : Len(r) = n - 1}, x \in S}

SyncIdle ==
    /\ targetURLs = <<>>
    /\ tgtIdx = 1
    /\ pending = <<>>
    /\ syncPC = "done"
    /\ received = <<>>
    /\ chClosed = TRUE
    /\ closeCount = 1
    /\ sawEOS = TRUE

\* prepareSyncURLs(sourceURL, targetURLs): the channel is made and the
\* producer goroutine is started at the top of its loop.
SyncInit ==
    /\ targetURLs \in SeqsUpTo(Targets, MaxTargets)
    /\ tgtIdx = 1
    /\ pending = <<>>
    /\ syncPC = "loop"
    /\ received = <<>>
    /\ chClosed = FALSE
    /\ closeCount = 0
    /\ sawEOS = FALSE

\* One iteration of the range loop up to its first send: classify the
\* target and prepare what has to be sent for it.
SyncClassify ==
    /\ syncPC = "loop"
    /\ tgtIdx <= Len(targetURLs)
    /\ LET out == SwitchCase(tgtIdx, targetURLs[tgtIdx]) IN
         IF out = <<>>
         THEN /\ tgtIdx' = tgtIdx + 1
              /\ UNCHANGED <<pending, syncPC>>
         ELSE /\ pending' = out
              /\ syncPC' = "send"
              /\ UNCHANGED tgtIdx
    /\ UNCHANGED <<targetURLs, received, chClosed, closeCount, sawEOS>>
    /\ UNCHANGED syncOthers

\* Mutant: the default branch returns after sending its error entry.
SyncHandoff_StopOnError ==
    /\ syncPC = "send"
    /\ ~chClosed
    /\ received' = Append(received, Head(pending))
    /\ pending' = Tail(pending)
    /\ IF Tail(pending) = <<>>
       THEN /\ syncPC' = "loop"
            /\ tgtIdx' = IF Head(pending).kind = "error"
                         THEN Len(targetURLs) + 1 ELSE tgtIdx + 1
       ELSE UNCHANGED <<syncPC, tgtIdx>>
    /\ UNCHANGED <<targetURLs, chClosed, closeCount, sawEOS>>
    /\ UNCHANGED syncOthers

\* syncURLsCh <- syncURLs on the unbuffered channel: the send completes
\* when the consumer receives the value.
SyncHandoff ==
    /\ syncPC = "send"
    /\ ~chClosed
    /\ received' = Append(received, Head(pending))
    /\ pending' = Tail(pending)
    /\ IF Tail(pending) = <<>>
       THEN /\ syncPC' = "loop"
            /\ tgtIdx' = tgtIdx + 1
       ELSE UNCHANGED <<syncPC, tgtIdx>>
    /\ UNCHANGED <<targetURLs, chClosed, closeCount, sawEOS>>
    /\ UNCHANGED syncOthers

\* Mutant: the goroutine returns without closing the channel.
SyncClose_NoClose ==
    /\ syncPC = "loop"
    /\ tgtIdx > Len(targetURLs)
    /\ syncPC' = "done"
    /\ UNCHANGED <<targetURLs, tgtIdx, pending, received, chClosed, closeCount, sawEOS>>
    /\ UNCHANGED syncOthers

\* The loop is over: the deferred close(syncURLsCh) runs.
SyncClose ==
    /\ syncPC = "loop"
    /\ tgtIdx > Len(targetURLs)
    /\ chClosed' = TRUE
    /\ closeCount' = closeCount + 1
    /\ syncPC' = "done"
    /\ UNCHANGED <<targetURLs, tgtIdx, pending, received, sawEOS>>
    /\ UNCHANGED syncOthers

\* The consumer's receive on the closed channel reports end-of-stream.
SyncRecvEOS ==
    /\ chClosed
    /\ ~sawEOS
    /\ sawEOS' = TRUE
    /\ UNCHANGED <<targetURLs, tgtIdx, pending, syncPC, received, chClosed, closeCount>>
    /\ UNCHANGED syncOthers

SyncNext ==
    \/ SyncClassify
    \/ SyncHandoff
    \/ SyncClose
    \/ SyncRecvEOS

(***************************************************************************)
(* Session files                                                           *)
(***************************************************************************)
\* Session IDs that may exist in the session directory.
SIDs == {"s1", "s2", "s3"}
\* Session IDs the session-manager specification operates on.
SessIDs == {"s1"}
\* Bytes a caller writes to the data log.
Bytes == {"x", "y"}
\* URLs a caller records as lastCopied.
ProgressURLs == {"a"}
MaxData == 2
MaxObjects == 1

NoFile == [exists |-> FALSE]
DataFileOf(c, d) == [exists |-> TRUE, content |-> c, durable |-> d]

\* A Go slice: nil or a (possibly empty) list of items.
NilSlice == [isNil |-> TRUE, items |-> <<>>]
Slice(items) == [isNil |-> FALSE, items |-> items]

\* sessionV4Header, reduced to the fields the operations and their callers
\* change: Version, CommandArgs, LastCopied, TotalObjects.
Header(v, args, lc, n) ==
    [Version |-> v, CommandArgs |-> args, LastCopied |-> lc, TotalObjects |-> n]

\* The header newSessionV4 builds.
NewHeader == Header("4", NilSlice, "", 0)

\* The zero header loadSessionV4 decodes into (Version preset to "4").
LoadPreset == Header("4", NilSlice, "", 0)

\* json.Marshal of the header, as written by quick.Save: the struct tags
\* name the keys, a nil slice becomes null.
jsonEncode(h) ==
    [version |-> h.Version,
     cmdArgs |-> IF h.CommandArgs.isNil THEN [null |-> TRUE, list |-> <<>>]
                 ELSE [null |-> FALSE, list |-> h.CommandArgs.items],
     lastCopied |-> h.LastCopied,
     totalObjects |-> h.TotalObjects]

\* Mutant: the lastCopied key is not read back.
jsonDecode_DropLastCopied(into, doc) ==
    Header(doc.version,
           IF doc.cmdArgs.null THEN into.CommandArgs ELSE Slice(doc.cmdArgs.list),
           into.LastCopied,
           doc.totalObjects)

\* json.Unmarshal into an existing header, as done by quick.Load: every key
\* present overwrites its field, null leaves the field as it was.
jsonDecode(into, doc) ==
    Header(doc.version,
           IF doc.cmdArgs.null THEN into.CommandArgs ELSE Slice(doc.cmdArgs.list),
           doc.lastCopied,
           doc.totalObjects)

HdrFileOf(h) == [exists |-> TRUE, doc |-> jsonEncode(h)]

\* os.File.Sync: what was written reaches stable storage.
SyncFile(f) == IF f.exists THEN DataFileOf(f.content, f.content) ELSE f

\* os.File.Write of one byte at offset off (the file is not opened O_APPEND).
WriteAt(f, off, b) ==
    IF ~f.exists THEN f
    ELSE IF off < Len(f.content)
         THEN DataFileOf([f.content EXCEPT ![off + 1] = b], f.durable)
         ELSE DataFileOf(Append(f.content, b), f.durable)

ContentLen(f) == IF f.exists THEN Len(f.content) ELSE 0
DurableLen(f) == IF f.exists THEN Len(f.durable) ELSE 0

(***************************************************************************)
(* Session manager                                                         *)
(* A process holds at most one sessionV4 value per session ID; load        *)
(* replaces it.  Save, Close and Delete run under the session mutex and    *)
(* are atomic with respect to each other; sessionDataFP.Write runs outside *)
(* the mutex, so its two statements are separate steps.  Sync, the header  *)
(* write and os.Remove may fail; load runs on a filesystem that answers.   *)
(***************************************************************************)
NoSession == [live |-> FALSE]
NoHdr == [none |-> TRUE]

\* A sessionV4 value: Header, and DataFP with its dirty flag, the state of
\* its file descriptor (open, opened read-write, offset) and a Write that is
\* between its two statements (wpend).  Three fields keep history: deleted
\* records that Delete ran, closedHdr the header a successful Close wrote,
\* loaded that the value was made by loadSessionV4.
SessionOf(h, open, rw, dirty, off, wpend, deleted) ==
    [live |-> TRUE, Header |-> h, open |-> open, rw |-> rw, dirty |-> dirty,
     off |-> off, wpend |-> wpend, deleted |-> deleted, closedHdr |-> NoHdr,
     loaded |-> FALSE]

\* What an operation returned, without memory of the operation before it.
Ret(op, s, res, hdr, dlen) ==
    [op |-> op, sid |-> s, res |-> res, hdr |-> hdr, dlen |-> dlen,
     pop |-> "", pres |-> "", psid |-> "", phdr |-> NoHdr, plen |-> 0]

\* What an operation returned, with the operation that ran right before it
\* and, when that was a save or a close, what it recorded.
RetAfter(op, s, res, hdr, dlen) ==
    LET keep == last.op \in {"save", "close"} /\ last.res = "ok" /\ op = "load" IN
    [op |-> op, sid |-> s, res |-> res, hdr |-> hdr, dlen |-> dlen,
     pop |-> last.op, pres |-> last.res, psid |-> last.sid,
     phdr |-> IF keep THEN last.hdr ELSE NoHdr,
     plen |-> IF keep THEN last.dlen ELSE 0]

\* What an operation returned, with the fact that the same operation on the
\* same session ran right before it, and what that call returned.
RetRepeat(op, s, res, hdr, dlen) ==
    LET again == last.op = op /\ last.sid = s IN
    [op |-> op, sid |-> s, res |-> res, hdr |-> hdr, dlen |-> dlen,
     pop |-> IF again THEN last.op ELSE "",
     pres |-> IF again THEN last.res ELSE "",
     psid |-> IF again THEN last.sid ELSE "",
     phdr |-> NoHdr, plen |-> 0]

NoOp == Ret("", "", "", NoHdr, 0)

\* A session an earlier run of the program saved and closed.
SavedOnDisk(s) ==
    /\ hdrFile[s] = HdrFileOf(Header("4", Slice(<<"cp">>), "", 0))
    /\ dataFile[s] = DataFileOf(<<"x">>, <<"x">>)

DiskIdle ==
    /\ sessionDirExists = TRUE
    /\ hdrFile = [s \in SIDs |-> NoFile]
    /\ dataFile = [s \in SIDs |-> NoFile]

SessIdle ==
    /\ sess = [s \in SIDs |-> NoSession]
    /\ last = NoOp
    /\ dead = FALSE

SessInit ==
    /\ sessionDirExists \in BOOLEAN
    /\ hdrFile \in [SIDs -> {NoFile, HdrFileOf(Header("4", Slice(<<"cp">>), "", 0))}]
    /\ dataFile \in [SIDs -> {NoFile, DataFileOf(<<"x">>, <<"x">>)}]
    /\ \A s \in SIDs :
         \/ hdrFile[s] = NoFile /\ dataFile[s] = NoFile
         \/ sessionDirExists /\ s \in SessIDs /\ SavedOnDisk(s)
    /\ sess = [s \in SIDs |-> NoSession]
    /\ last = NoOp
    /\ dead = FALSE

\* newSessionV4: a fresh ID, a fresh header, os.Create of the data file.
\* The header file is not written until the first Save.
Create(s) ==
    /\ ~dead
    /\ ~sess[s].live /\ ~hdrFile[s].exists /\ ~dataFile[s].exists
    /\ IF sessionDirExists
       THEN /\ dataFile' = [dataFile EXCEPT ![s] = DataFileOf(<<>>, <<>>)]
            /\ sess' = [sess EXCEPT ![s] = SessionOf(NewHeader, TRUE, TRUE, FALSE, 0, "", FALSE)]
            /\ last' = Ret("create", s, "ok", NoHdr, 0)
            /\ UNCHANGED dead
       ELSE /\ dead' = TRUE
            /\ last' = Ret("create", s, "fatal", NoHdr, 0)
            /\ UNCHANGED <<dataFile, sess>>
    /\ UNCHANGED <<sessionDirExists, hdrFile>>
    /\ UNCHANGED sessOthers

\* The caller records progress in the header: LastCopied and TotalObjects.
SetProgress(s, u) ==
    /\ ~dead
    /\ sess[s].live
    /\ sess[s].Header.TotalObjects < MaxObjects
    /\ sess' = [sess EXCEPT ![s].Header.LastCopied = u,
                            ![s].Header.TotalObjects = @ + 1]
    /\ last' = Ret("set", s, "ok", NoHdr, 0)
    /\ UNCHANGED <<dead, diskVars>>
    /\ UNCHANGED sessOthers

\* NewDataWriter: Seek(0, SEEK_SET) on DataFP (an error of Seek is dropped).
NewDataWriter(s) ==
    /\ ~dead
    /\ sess[s].live
    /\ sess' = [sess EXCEPT ![s].off = IF sess[s].open THEN 0 ELSE @]
    /\ last' = Ret("writer", s, "ok", NoHdr, 0)
    /\ UNCHANGED <<dead, diskVars>>
    /\ UNCHANGED sessOthers

\* NewDataReader: Seek(0, SEEK_SET) on DataFP (an error of Seek is dropped).
NewDataReader(s) ==
    /\ ~dead
    /\ sess[s].live
    /\ sess' = [sess EXCEPT ![s].off = IF sess[s].open THEN 0 ELSE @]
    /\ last' = Ret("reader", s, "ok", NoHdr, 0)
    /\ UNCHANGED <<dead, diskVars>>
    /\ UNCHANGED sessOthers

\* A Read of one record through the reader: os.File.Read at the offset of
\* the descriptor, which reads and writes share.  The guard on the offset
\* keeps a Write that is between its two statements within MaxData.
Read(s) ==
    /\ ~dead
    /\ sess[s].live
    /\ sess[s].wpend = "" \/ sess[s].off + 1 < MaxData
    /\ LET h == sess[s]
           got == h.open /\ h.off < ContentLen(dataFile[s])
       IN  /\ sess' = [sess EXCEPT ![s].off = IF got THEN @ + 1 ELSE @]
           /\ last' = Ret("read", s, IF ~h.open THEN "IOError"
                                      ELSE IF got THEN "ok" ELSE "EOF", NoHdr, 0)
    /\ UNCHANGED <<dead, diskVars>>
    /\ UNCHANGED sessOthers

\* sessionDataFP.Write, first statement: file.dirty = true.
WriteMark(s, b) ==
    /\ ~dead
    /\ sess[s].live
    /\ sess[s].wpend = ""
    /\ sess[s].off < MaxData
    /\ sess' = [sess EXCEPT ![s].dirty = TRUE, ![s].wpend = b]
    /\ last' = Ret("write", s, "", NoHdr, 0)
    /\ UNCHANGED <<dead, diskVars>>
    /\ UNCHANGED sessOthers

\* sessionDataFP.Write, second statement: file.File.Write(p).  It fails on
\* a closed descriptor and on one opened read-only.
WriteBytes(s) ==
    /\ ~dead
    /\ sess[s].live
    /\ sess[s].wpend # ""
    /\ LET h == sess[s]
           ok == h.open /\ h.rw
       IN  /\ dataFile' = [dataFile EXCEPT ![s] = IF ok THEN WriteAt(@, h.off, h.wpend) ELSE @]
           /\ sess' = [sess EXCEPT ![s].wpend = "",
                                   ![s].off = IF ok THEN @ + 1 ELSE @]
           /\ last' = Ret("write", s, IF ok THEN "ok" ELSE "IOError", NoHdr, 0)
    /\ UNCHANGED <<dead, sessionDirExists, hdrFile>>
    /\ UNCHANGED sessOthers

\* Mutant: Save writes the header file before it flushes the data log.
Save_HeaderFirst(s) ==
    /\ ~dead
    /\ sess[s].live
    /\ \E syncOK \in BOOLEAN, writeOK \in BOOLEAN :
         LET h == sess[s]
             flushFails == h.dirty /\ (~h.open \/ ~syncOK)
             flushed == IF h.dirty /\ ~flushFails THEN SyncFile(dataFile[s]) ELSE dataFile[s]
             saved == writeOK /\ sessionDirExists
         IN  /\ dataFile' = [dataFile EXCEPT ![s] = flushed]
             /\ sess' = [sess EXCEPT ![s].dirty = IF flushFails THEN @ ELSE FALSE]
             /\ hdrFile' = [hdrFile EXCEPT ![s] = IF saved THEN HdrFileOf(h.Header) ELSE @]
             /\ last' = RetRepeat("save", s, IF saved /\ ~flushFails THEN "ok" ELSE "IOError",
                                  h.Header, DurableLen(flushed))
    /\ UNCHANGED <<dead, sessionDirExists>>
    /\ UNCHANGED sessOthers

\* Mutant: Save flushes a dirty data log but leaves the flag set.
Save_KeepsDirty(s) ==
    /\ ~dead
    /\ sess[s].live
    /\ \E syncOK \in BOOLEAN, writeOK \in BOOLEAN :
         LET h == sess[s]
             flushFails == h.dirty /\ (~h.open \/ ~syncOK)
             flushed == IF h.dirty /\ ~flushFails THEN SyncFile(dataFile[s]) ELSE dataFile[s]
             saved == ~flushFails /\ writeOK /\ sessionDirExists
         IN  /\ dataFile' = [dataFile EXCEPT ![s] = flushed]
             /\ hdrFile' = [hdrFile EXCEPT ![s] = IF saved THEN HdrFileOf(h.Header) ELSE @]
             /\ last' = RetRepeat("save", s, IF saved THEN "ok" ELSE "IOError",
                                  h.Header, DurableLen(flushed))
    /\ UNCHANGED <<dead, sessionDirExists, sess>>
    /\ UNCHANGED sessOthers

\* Save: under the mutex, Sync the data log if it is dirty and clear the
\* flag, then write the header file.  A failed Sync returns before the
\* header is written; Sync on a closed descriptor fails.
Save(s) ==
    /\ ~dead
    /\ sess[s].live
    /\ \E syncOK \in BOOLEAN, writeOK \in BOOLEAN :
         LET h == sess[s]
             flushFails == h.dirty /\ (~h.open \/ ~syncOK)
             flushed == IF h.dirty /\ ~flushFails THEN SyncFile(dataFile[s]) ELSE dataFile[s]
             saved == ~flushFails /\ writeOK /\ sessionDirExists
         IN  /\ dataFile' = [dataFile EXCEPT ![s] = flushed]
             /\ sess' = [sess EXCEPT ![s].dirty = IF flushFails THEN @ ELSE FALSE]
             /\ hdrFile' = [hdrFile EXCEPT ![s] = IF saved THEN HdrFileOf(h.Header) ELSE @]
             /\ last' = RetRepeat("save", s, IF saved THEN "ok" ELSE "IOError",
                                  h.Header, DurableLen(flushed))
    /\ UNCHANGED <<dead, sessionDirExists>>
    /\ UNCHANGED sessOthers

\* Mutant: Close writes the header even when closing the data log failed.
Close_AlwaysSaves(s) ==
    /\ ~dead
    /\ sess[s].live
    /\ \E closeOK \in BOOLEAN, writeOK \in BOOLEAN :
         LET h == sess[s]
             closed == h.open /\ closeOK
             saved == writeOK /\ sessionDirExists
         IN  /\ sess' = [sess EXCEPT ![s].open = FALSE,
                                     ![s].closedHdr = IF closed /\ saved THEN h.Header ELSE @]
             /\ hdrFile' = [hdrFile EXCEPT ![s] = IF saved THEN HdrFileOf(h.Header) ELSE @]
             /\ last' = Ret("close", s, IF closed /\ saved THEN "ok" ELSE "IOError", h.Header, 0)
    /\ UNCHANGED <<dead, sessionDirExists, dataFile>>
    /\ UNCHANGED sessOthers

\* Mutant: Close removes the data-log file after closing it.
Close_RemovesData(s) ==
    /\ ~dead
    /\ sess[s].live
    /\ \E closeOK \in BOOLEAN, writeOK \in BOOLEAN :
         LET h == sess[s]
             closed == h.open /\ closeOK
             saved == closed /\ writeOK /\ sessionDirExists
         IN  /\ sess' = [sess EXCEPT ![s].open = FALSE,
                                     ![s].closedHdr = IF saved THEN h.Header ELSE @]
             /\ dataFile' = [dataFile EXCEPT ![s] = IF closed THEN NoFile ELSE @]
             /\ hdrFile' = [hdrFile EXCEPT ![s] = IF saved THEN HdrFileOf(h.Header) ELSE @]
             /\ last' = Ret("close", s, IF saved THEN "ok" ELSE "IOError", h.Header, 0)
    /\ UNCHANGED <<dead, sessionDirExists>>
    /\ UNCHANGED sessOthers

\* Close: under the mutex, close the data log and return its error, if
\* any, before the header is written; then write the header file.  Closing
\* a closed descriptor is an error.  The data log is not synced.
Close(s) ==
    /\ ~dead
    /\ sess[s].live
    /\ \E closeOK \in BOOLEAN, writeOK \in BOOLEAN :
         LET h == sess[s]
             closed == h.open /\ closeOK
             saved == closed /\ writeOK /\ sessionDirExists
         IN  /\ sess' = [sess EXCEPT ![s].open = FALSE,
                                     ![s].closedHdr = IF saved THEN h.Header ELSE @]
             /\ hdrFile' = [hdrFile EXCEPT ![s] = IF saved THEN HdrFileOf(h.Header) ELSE @]
             /\ last' = Ret("close", s, IF saved THEN "ok" ELSE "IOError", h.Header, 0)
    /\ UNCHANGED <<dead, sessionDirExists, dataFile>>
    /\ UNCHANGED sessOthers

\* Mutant: Delete stops after removing the data-log file.
Delete_KeepsHeader(s) ==
    /\ ~dead
    /\ sess[s].live
    /\ \E rmDataOK \in BOOLEAN :
         LET dataGone == dataFile[s].exists /\ rmDataOK
         IN  /\ sess' = [sess EXCEPT ![s].open = FALSE, ![s].deleted = TRUE]
             /\ dataFile' = [dataFile EXCEPT ![s] = IF dataGone THEN NoFile ELSE @]
             /\ last' = RetAfter("delete", s, IF dataGone THEN "ok" ELSE "IOError", NoHdr, 0)
    /\ UNCHANGED <<dead, sessionDirExists, hdrFile>>
    /\ UNCHANGED sessOthers

\* Delete: under the mutex, close the data log ignoring the error, remove
\* the data-log file, then the header file; the first failing os.Remove is
\* returned.  Removing a missing file fails.
Delete(s) ==
    /\ ~dead
    /\ sess[s].live
    /\ \E rmDataOK \in BOOLEAN, rmHdrOK \in BOOLEAN :
         LET dataGone == dataFile[s].exists /\ rmDataOK
             hdrGone == dataGone /\ hdrFile[s].exists /\ rmHdrOK
         IN  /\ sess' = [sess EXCEPT ![s].open = FALSE, ![s].deleted = TRUE]
             /\ dataFile' = [dataFile EXCEPT ![s] = IF dataGone THEN NoFile ELSE @]
             /\ hdrFile' = [hdrFile EXCEPT ![s] = IF hdrGone THEN NoFile ELSE @]
             /\ last' = RetAfter("delete", s, IF hdrGone THEN "ok" ELSE "IOError", NoHdr, 0)
    /\ UNCHANGED <<dead, sessionDirExists>>
    /\ UNCHANGED sessOthers

\* loadSessionV4(sid): what it returns in the current state of the disk.
\*   InvalidArgument  the session directory does not exist
\*   NotFound         os.Stat of the header file fails
\*   fatal            os.Open of the data-log file fails (fatalIf)
\*   ok               the header decoded by quick.Load, the data log opened
\*                    read-only by os.Open
loadSessionV4(s) ==
    IF ~sessionDirExists THEN [res |-> "InvalidArgument", session |-> NoSession]
    ELSE IF ~hdrFile[s].exists THEN [res |-> "NotFound", session |-> NoSession]
    ELSE IF ~dataFile[s].exists THEN [res |-> "fatal", session |-> NoSession]
    ELSE [res |-> "ok",
          session |-> [SessionOf(jsonDecode(LoadPreset, hdrFile[s].doc),
                                 TRUE, FALSE, FALSE, 0, "", FALSE)
                          EXCEPT !.loaded = TRUE]]

\* A call of loadSessionV4: on success its result becomes the session
\* value the process works with.
Load(s) ==
    /\ ~dead
    /\ LET r == loadSessionV4(s) IN
         /\ sess' = [sess EXCEPT ![s] = IF r.res = "ok" THEN r.session ELSE @]
         /\ dead' = (r.res = "fatal")
         /\ last' = RetAfter("load", s, r.res,
                             IF r.res = "ok" THEN r.session.Header ELSE NoHdr,
                             IF r.res = "ok" THEN ContentLen(dataFile[s]) ELSE 0)
    /\ UNCHANGED diskVars
    /\ UNCHANGED sessOthers

SessNext ==
    \/ \E s \in SessIDs : Create(s)
    \/ \E s \in SessIDs, u \in ProgressURLs : SetProgress(s, u)
    \/ \E s \in SessIDs : NewDataWriter(s)
    \/ \E s \in SessIDs : NewDataReader(s)
    \/ \E s \in SessIDs : Read(s)
    \/ \E s \in SessIDs, b \in Bytes : WriteMark(s, b)
    \/ \E s \in SessIDs : WriteBytes(s)
    \/ \E s \in SessIDs : Save(s)
    \/ \E s \in SessIDs : Close(s)
    \/ \E s \in SessIDs : Delete(s)
    \/ \E s \in SessIDs : Load(s)

(***************************************************************************)
(* Save, Close and Delete, statement by statement                          *)
(* Several tasks call Save, Close and Delete on the one sessionV4 value of *)
(* a session.  Each method starts with s.mutex.Lock() and defers           *)
(* s.mutex.Unlock(), so every return releases the mutex.                   *)
(***************************************************************************)
Tasks == {"t1", "t2", "t3"}
Methods == {"save", "close", "delete"}
LockSID == "s1"

TaskIdle == [op |-> "", at |-> "idle"]
At(op, at) == [op |-> op, at |-> at]

\* The first statement of each method after the Lock and the defer.
FirstStatement(op) ==
    CASE op = "save" -> "flush"
      [] op = "close" -> "fd"
      [] op = "delete" -> "fd"

LockIdle ==
    /\ mutex = ""
    /\ tpc = [t \in Tasks |-> TaskIdle]

\* A session made by newSessionV4, untouched or with one record written.
LockInit ==
    /\ sessionDirExists = TRUE
    /\ hdrFile = [s \in SIDs |-> NoFile]
    /\ \E written \in BOOLEAN :
         /\ dataFile = [s \in SIDs |->
                          IF s # LockSID THEN NoFile
                          ELSE IF written THEN DataFileOf(<<"x">>, <<>>)
                          ELSE DataFileOf(<<>>, <<>>)]
         /\ sess = [s \in SIDs |->
                      IF s # LockSID THEN NoSession
                      ELSE SessionOf(NewHeader, TRUE, TRUE, written,
                                     IF written THEN 1 ELSE 0, "", FALSE)]
    /\ last = NoOp
    /\ dead = FALSE
    /\ LockIdle

\* A task calls a method: it is about to run s.mutex.Lock().
Call(t, op) ==
    /\ tpc[t] = TaskIdle
    /\ tpc' = [tpc EXCEPT ![t] = At(op, "lock")]
    /\ UNCHANGED <<mutex, diskVars, sessVars>>
    /\ UNCHANGED lockOthers

\* Mutant: the method body is entered without taking the mutex.
Acquire_NoLock(t) ==
    /\ tpc[t].at = "lock"
    /\ tpc' = [tpc EXCEPT ![t] = At(tpc[t].op, FirstStatement(tpc[t].op))]
    /\ UNCHANGED <<mutex, diskVars, sessVars>>
    /\ UNCHANGED lockOthers

\* s.mutex.Lock() returns once the mutex is free; defer s.mutex.Unlock().
Acquire(t) ==
    /\ tpc[t].at = "lock"
    /\ mutex = ""
    /\ mutex' = t
    /\ tpc' = [tpc EXCEPT ![t] = At(tpc[t].op, FirstStatement(tpc[t].op))]
    /\ UNCHANGED <<diskVars, sessVars>>
    /\ UNCHANGED lockOthers

\* A return statement: the deferred s.mutex.Unlock() runs.
Returns(t) ==
    /\ mutex' = ""
    /\ tpc' = [tpc EXCEPT ![t] = TaskIdle]

Continues(t, at) ==
    /\ mutex' = mutex
    /\ tpc' = [tpc EXCEPT ![t] = At(tpc[t].op, at)]

\* Save, lines 194-199: Sync if dirty; a failed Sync returns the error.
SaveFlush(t) ==
    /\ tpc[t] = At("save", "flush")
    /\ \E syncOK \in BOOLEAN :
         LET h == sess[LockSID]
             flushFails == h.dirty /\ (~h.open \/ ~syncOK)
         IN  IF flushFails
             THEN /\ Returns(t)
                  /\ UNCHANGED <<dataFile, sess>>
             ELSE /\ Continues(t, "header")
                  /\ dataFile' = [dataFile EXCEPT ![LockSID] = IF h.dirty THEN SyncFile(@) ELSE @]
                  /\ sess' = [sess EXCEPT ![LockSID].dirty = FALSE]
    /\ UNCHANGED <<sessionDirExists, hdrFile, last, dead>>
    /\ UNCHANGED lockOthers

\* Save, lines 201-210: write the header file and return.
SaveHeader(t) ==
    /\ tpc[t] = At("save", "header")
    /\ \E writeOK \in BOOLEAN :
         hdrFile' = [hdrFile EXCEPT ![LockSID] =
                        IF writeOK THEN HdrFileOf(sess[LockSID].Header) ELSE @]
    /\ Returns(t)
    /\ UNCHANGED <<sessionDirExists, dataFile, sessVars>>
    /\ UNCHANGED lockOthers

\* Close, lines 218-220: close the data log; an error returns.
CloseFd(t) ==
    /\ tpc[t] = At("close", "fd")
    /\ \E closeOK \in BOOLEAN :
         IF sess[LockSID].open /\ closeOK
         THEN Continues(t, "header")
         ELSE Returns(t)
    /\ sess' = [sess EXCEPT ![LockSID].open = FALSE]
    /\ UNCHANGED <<diskVars, last, dead>>
    /\ UNCHANGED lockOthers

\* Close, lines 222-231: write the header file and return.
CloseHeader(t) ==
    /\ tpc[t] = At("close", "header")
    /\ \E writeOK \in BOOLEAN :
         /\ hdrFile' = [hdrFile EXCEPT ![LockSID] =
                           IF writeOK THEN HdrFileOf(sess[LockSID].Header) ELSE @]
         /\ sess' = [sess EXCEPT ![LockSID].closedHdr =
                           IF writeOK THEN sess[LockSID].Header ELSE @]
    /\ Returns(t)
    /\ UNCHANGED <<sessionDirExists, dataFile, last, dead>>
    /\ UNCHANGED lockOthers

\* Delete, lines 239-244: close the data log, ignoring the error.
DeleteFd(t) ==
    /\ tpc[t] = At("delete", "fd")
    /\ sess' = [sess EXCEPT ![LockSID].open = FALSE, ![LockSID].deleted = TRUE]
    /\ Continues(t, "rmdata")
    /\ UNCHANGED <<diskVars, last, dead>>
    /\ UNCHANGED lockOthers

\* Delete, lines 246-249: remove the data-log file; an error returns.
DeleteRmData(t) ==
    /\ tpc[t] = At("delete", "rmdata")
    /\ \E rmDataOK \in BOOLEAN :
         IF dataFile[LockSID].exists /\ rmDataOK
         THEN /\ dataFile' = [dataFile EXCEPT ![LockSID] = NoFile]
              /\ Continues(t, "rmhdr")
         ELSE /\ UNCHANGED dataFile
              /\ Returns(t)
    /\ UNCHANGED <<sessionDirExists, hdrFile, sessVars>>
    /\ UNCHANGED lockOthers

\* Delete, lines 252-261: remove the header file and return.
DeleteRmHdr(t) ==
    /\ tpc[t] = At("delete", "rmhdr")
    /\ \E rmHdrOK \in BOOLEAN :
         hdrFile' = [hdrFile EXCEPT ![LockSID] =
                        IF hdrFile[LockSID].exists /\ rmHdrOK THEN NoFile ELSE @]
    /\ Returns(t)
    /\ UNCHANGED <<sessionDirExists, dataFile, sessVars>>
    /\ UNCHANGED lockOthers

LockNext ==
    \/ \E t \in Tasks, op \in Methods : Call(t, op)
    \/ \E t \in Tasks : Acquire(t)
    \/ \E t \in Tasks : SaveFlush(t)
    \/ \E t \in Tasks : SaveHeader(t)
    \/ \E t \in Tasks : CloseFd(t)
    \/ \E t \in Tasks : CloseHeader(t)
    \/ \E t \in Tasks : DeleteFd(t)
    \/ \E t \in Tasks : DeleteRmData(t)
    \/ \E t \in Tasks : DeleteRmHdr(t)

(***************************************************************************)
(* Version sweep                                                           *)
(***************************************************************************)
MigrIdle ==
    /\ sweepOrder = <<>>
    /\ sweepIdx = 1
    /\ sweepPC = "idle"
    /\ disk0 = [s \in SIDs |-> ""]

\* Header version of the session file of s, "" when there is none.
DiskVersion(s) == IF hdrFile[s].exists THEN hdrFile[s].doc.version ELSE ""

\* getSessionIDs: the IDs that have a header file in the session directory.
getSessionIDs == {s \in SIDs : hdrFile[s].exists}

\* The orders in which a set can be enumerated.
Orders(S) == {q \in SeqsUpTo(S, Cardinality(S)) :
                 Len(q) = Cardinality(S) /\ \A i, j \in 1..Len(q) : i # j => q[i] # q[j]}

\* Program start: sessions of the current and of an older version are on
\* disk, each with its header and its data log; migrateSessionV3ToV4 is
\* about to range over getSessionIDs().
MigrInit ==
    /\ sessionDirExists = TRUE
    /\ hdrFile \in [SIDs -> {NoFile,
                             HdrFileOf(Header("3", Slice(<<"cp">>), "a", 1)),
                             HdrFileOf(Header("4", Slice(<<"cp">>), "a", 1))}]
    /\ dataFile = [s \in SIDs |-> IF hdrFile[s].exists THEN DataFileOf(<<"x">>, <<"x">>) ELSE NoFile]
    /\ sweepOrder \in Orders(getSessionIDs)
    /\ sweepIdx = 1
    /\ sweepPC = "run"
    /\ disk0 = [s \in SIDs |-> DiskVersion(s)]
    /\ SessIdle

\* loadSessionV3(sid).Header.Version: the version recorded in the header file.
loadSessionV3Version(s) == jsonDecode(LoadPreset, hdrFile[s].doc).Version

\* Mutant: the files of a session at version "4" are removed as well.
MigrateStep_RemovesCurrent ==
    /\ sweepPC = "run"
    /\ sweepIdx <= Len(sweepOrder)
    /\ LET sid == sweepOrder[sweepIdx] IN
         \E rmHdrOK \in BOOLEAN, rmDataOK \in BOOLEAN :
           LET hdrGone == hdrFile[sid].exists /\ rmHdrOK
               dataGone == hdrGone /\ dataFile[sid].exists /\ rmDataOK
           IN  /\ hdrFile' = [hdrFile EXCEPT ![sid] = IF hdrGone THEN NoFile ELSE @]
               /\ dataFile' = [dataFile EXCEPT ![sid] = IF dataGone THEN NoFile ELSE @]
               /\ sweepPC' = IF ~dataGone THEN "fatal"
                             ELSE IF loadSessionV3Version(sid) = "4" THEN "done" ELSE "run"
               /\ sweepIdx' = IF dataGone THEN sweepIdx + 1 ELSE sweepIdx
    /\ UNCHANGED <<sweepOrder, disk0, sessionDirExists>>
    /\ UNCHANGED migrOthers

\* One iteration of the range loop: a session at version "4" makes the
\* function return; otherwise the header file and then the data-log file
\* are removed, and a failing os.Remove is fatal.
MigrateStep ==
    /\ sweepPC = "run"
    /\ sweepIdx <= Len(sweepOrder)
    /\ LET sid == sweepOrder[sweepIdx] IN
         IF loadSessionV3Version(sid) = "4"
         THEN /\ sweepPC' = "done"
              /\ UNCHANGED <<sweepIdx, hdrFile, dataFile>>
         ELSE \E rmHdrOK \in BOOLEAN, rmDataOK \in BOOLEAN :
                LET hdrGone == hdrFile[sid].exists /\ rmHdrOK
                    dataGone == hdrGone /\ dataFile[sid].exists /\ rmDataOK
                IN  /\ hdrFile' = [hdrFile EXCEPT ![sid] = IF hdrGone THEN NoFile ELSE @]
                    /\ dataFile' = [dataFile EXCEPT ![sid] = IF dataGone THEN NoFile ELSE @]
                    /\ sweepPC' = IF dataGone THEN "run" ELSE "fatal"
                    /\ sweepIdx' = IF dataGone THEN sweepIdx + 1 ELSE sweepIdx
    /\ UNCHANGED <<sweepOrder, disk0, sessionDirExists>>
    /\ UNCHANGED migrOthers

\* The range loop is over: the function returns.
MigrateReturn ==
    /\ sweepPC = "run"
    /\ sweepIdx > Len(sweepOrder)
    /\ sweepPC' = "done"
    /\ UNCHANGED <<sweepOrder, sweepIdx, disk0, diskVars>>
    /\ UNCHANGED migrOthers

MigrNext ==
    \/ MigrateStep
    \/ MigrateReturn

(***************************************************************************)
(* Specifications                                                          *)
(***************************************************************************)
SkipSpecInit == SkipInit /\ SyncIdle /\ DiskIdle /\ SessIdle /\ MigrIdle /\ LockIdle
SkipSpec == SkipSpecInit /\ [][SkipNext]_vars

SyncSpecInit == SyncInit /\ SkipIdle /\ DiskIdle /\ SessIdle /\ MigrIdle /\ LockIdle
SyncSpec == SyncSpecInit /\ [][SyncNext]_vars

\* The producer goroutine is scheduled, and the consumer keeps receiving.
SyncFairSpec ==
    /\ SyncSpecInit
    /\ [][SyncNext]_vars
    /\ WF_vars(SyncClassify)
    /\ WF_vars(SyncHandoff)
    /\ WF_vars(SyncClose)
    /\ WF_vars(SyncRecvEOS)

SessSpecInit == SessInit /\ SkipIdle /\ SyncIdle /\ MigrIdle /\ LockIdle
SessSpec == SessSpecInit /\ [][SessNext]_vars

MigrSpecInit == MigrInit /\ SkipIdle /\ SyncIdle /\ LockIdle
MigrSpec == MigrSpecInit /\ [][MigrNext]_vars

LockSpecInit == LockInit /\ SkipIdle /\ SyncIdle /\ MigrIdle
LockSpec == LockSpecInit /\ [][LockNext]_vars

(***************************************************************************)
(* Properties of the resume skip predicate                                 *)
(***************************************************************************)
MarkerSeenBefore(i) == \E j \in 1..(i - 1) : skipCalls[j] = lastCopied

\* C1: with an empty marker every call returns false; with a non-empty
\* marker the i-th call returns true exactly when no earlier call had an
\* input equal to the marker (so the matching call itself returns true and
\* every later call false, also when the marker is presented again).
C1_SkipUntilMarker ==
    /\ Len(skipResults) = Len(skipCalls)
    /\ \A i \in 1..Len(skipCalls) :
         IF lastCopied = ""
         THEN skipResults[i] = FALSE
         ELSE skipResults[i] = (~MarkerSeenBefore(i))

\* The marker was presented twice, with another URL before the first.
C1_Witness ==
    /\ lastCopied # ""
    /\ \E i, j \in 1..Len(skipCalls) :
         /\ 1 < i /\ i < j
         /\ skipCalls[i] = lastCopied
         /\ skipCalls[j] = lastCopied
         /\ skipResults[i] = TRUE
         /\ skipResults[j] = FALSE

\* C2: a non-empty marker that never occurs in the replay keeps the
\* predicate in the Skipping state: every call so far returned true.
C2_StuckSkipping ==
    (lastCopied # "" /\ \A i \in 1..Len(skipCalls) : skipCalls[i] # lastCopied)
        => (copied /\ \A i \in 1..Len(skipResults) : skipResults[i] = TRUE)

\* A pass of several calls that never presents the marker.
C2_Witness ==
    /\ lastCopied = "z"
    /\ Len(skipCalls) >= 3
    /\ \A i \in 1..Len(skipCalls) : skipResults[i] = TRUE

(***************************************************************************)
(* Properties of the sync fan-out planner                                  *)
(***************************************************************************)
IsPrefix(p, q) == Len(p) <= Len(q) /\ \A i \in 1..Len(p) : p[i] = q[i]

\* The entries received for target k, in the order received.
Segment(k) == SelectSeq(received, LAMBDA e : e.tgt = k)

\* The producer has finished target k.
PastTarget(k) == tgtIdx > k

\* C3: the received sequence is the concatenation, in target-list order,
\* of the targets' expansions: one entry for a shape A or B target, the
\* sub-stream in its own order for a shape C target, and all entries of a
\* target before any entry of the next.
C3_TargetOrder ==
    /\ \A i, j \in 1..Len(received) : i < j => received[i].tgt <= received[j].tgt
    /\ \A i \in 1..Len(received) :
         /\ received[i].tgt \in 1..Len(targetURLs)
         /\ received[i].url = targetURLs[received[i].tgt]
    /\ \A k \in 1..Len(targetURLs) :
         LET t == targetURLs[k]
             shape == guessCopyURLType(t)
             want == IF shape = "C" THEN prepareCopyURLsTypeC(k, t) ELSE <<Job(k, t, 1)>>
         IN  shape \in {"A", "B", "C"} =>
               /\ IsPrefix(Segment(k), want)
               /\ PastTarget(k) => Segment(k) = want

\* A shape-C target with two entries was followed by a one-entry target.
C3_Witness ==
    /\ chClosed
    /\ \E k \in 1..Len(targetURLs) :
         /\ targetURLs[k] = "dset"
         /\ k < Len(targetURLs)
         /\ guessCopyURLType(targetURLs[k + 1]) \in {"A", "B"}
         /\ Len(Segment(k)) = 2
         /\ Len(Segment(k + 1)) = 1

\* C4: a target of an invalid shape contributes exactly one InvalidArgument
\* error entry at its position, and the targets after it still contribute
\* their full expansion.
C4_InvalidShapeContinues ==
    \A k \in 1..Len(targetURLs) :
        guessCopyURLType(targetURLs[k]) = "Invalid" =>
          /\ IsPrefix(Segment(k), <<ErrEntry(k, targetURLs[k])>>)
          /\ PastTarget(k) => Segment(k) = <<ErrEntry(k, targetURLs[k])>>
          /\ chClosed =>
               \A m \in (k + 1)..Len(targetURLs) :
                   LET t == targetURLs[m]
                       shape == guessCopyURLType(t)
                   IN  /\ shape \in {"A", "B"} => Segment(m) = <<Job(m, t, 1)>>
                       /\ shape = "C" => Segment(m) = prepareCopyURLsTypeC(m, t)
                       /\ shape = "Invalid" => Segment(m) = <<ErrEntry(m, t)>>

\* An invalid target was followed by a shape-C target whose entries arrived.
C4_Witness ==
    /\ chClosed
    /\ \E k \in 1..Len(targetURLs) :
         /\ targetURLs[k] = "bad"
         /\ k < Len(targetURLs)
         /\ targetURLs[k + 1] = "dset"
         /\ Segment(k) = <<ErrEntry(k, "bad")>>
         /\ Len(Segment(k + 1)) = 2

\* Every target has handed over all the entries the loop body sends for it.
AllHandedOver ==
    /\ pending = <<>>
    /\ tgtIdx > Len(targetURLs)
    /\ \A k \in 1..Len(targetURLs) : Len(Segment(k)) = Len(SwitchCase(k, targetURLs[k]))

\* C5: a consumer that keeps receiving eventually observes end-of-stream;
\* the stream is closed at most once, only after every entry of the last
\* target was handed over, and nothing is delivered after the close.
C5_StreamTerminates ==
    /\ <>sawEOS
    /\ [](closeCount <= 1)
    /\ [](chClosed => (closeCount = 1 /\ AllHandedOver))
    /\ [](sawEOS => chClosed)
    /\ [][chClosed => (received' = received /\ chClosed')]_vars

\* End-of-stream was observed after an error entry and a later job.
C5_Witness ==
    /\ sawEOS
    /\ \E i, j \in 1..Len(received) :
         i < j /\ received[i].kind = "error" /\ received[j].kind = "job"


(***************************************************************************)
(* Properties of the session manager                                       *)
(***************************************************************************)
\* The operation before the last one was op on the same session and
\* returned res.
RightAfter(op, res) ==
    /\ last.pop = op
    /\ last.pres = res
    /\ last.psid = last.sid

\* C6: for a session that was not deleted, save() followed immediately by
\* load(id) succeeds and returns a header equal field-for-field to the
\* header at the time of save, and a data log whose length equals the
\* number of bytes flushed.
C6_SaveLoadRoundTrip ==
    (last.op = "load" /\ RightAfter("save", "ok") /\ ~sess[last.sid].deleted) =>
        /\ last.res = "ok"
        /\ last.hdr = last.phdr
        /\ last.dlen = last.plen

C8_CloseOnClosedHandle ==
    [][\A s \in SessIDs :
          (sess[s].live /\ ~sess[s].open /\ last'.op = "close" /\ last'.sid = s) =>
              (last'.res = "IOError" /\ hdrFile' = hdrFile)]_vars

\* A close succeeded, the header was changed in memory, a further close
\* failed, and the header file is still the one the first close wrote.
C8_Witness ==
    \E s \in SessIDs :
        /\ sess[s].live
        /\ last.op = "close" /\ last.sid = s /\ last.res = "IOError"
        /\ sess[s].closedHdr # NoHdr
        /\ sess[s].closedHdr # sess[s].Header
        /\ hdrFile[s] = HdrFileOf(sess[s].closedHdr)

\* C9: after a successful delete() neither file of the session exists, a
\* load(id) that follows fails with not-found, and a second delete()
\* returns an error.
C9_DeleteRemovesBoth ==
    /\ (last.op = "delete" /\ last.res = "ok") =>
           (~hdrFile[last.sid].exists /\ ~dataFile[last.sid].exists)
    /\ (last.op = "load" /\ RightAfter("delete", "ok")) => last.res = "NotFound"
    /\ (last.op = "delete" /\ RightAfter("delete", "ok")) => last.res = "IOError"

\* A session that had been closed was deleted, and the load after it failed.
C9_Witness ==
    /\ last.op = "load"
    /\ RightAfter("delete", "ok")
    /\ last.res = "NotFound"
    /\ sess[last.sid].live
    /\ sess[last.sid].closedHdr # NoHdr

(***************************************************************************)
(* Properties of the version sweep                                         *)
(***************************************************************************)
\* C10: after the sweep has run, every session whose header version on
\* disk differed from the current version has lost its header file and its
\* data-log file.
C10_SweepRemovesOldVersions ==
    sweepPC = "done" =>
        \A s \in SIDs :
            (disk0[s] # "" /\ disk0[s] # "4") =>
                (~hdrFile[s].exists /\ ~dataFile[s].exists)

\* The files a session of version v has on disk when the sweep starts.
SweepStartHdr(v) == HdrFileOf(Header(v, Slice(<<"cp">>), "a", 1))
SweepStartData == DataFileOf(<<"x">>, <<"x">>)

\* C11: the sweep leaves every session that is at the current version
\* untouched: its header file and its data-log file exist with the
\* contents they had, whatever other sessions are on disk.
C11_SweepKeepsCurrent ==
    \A s \in SIDs :
        disk0[s] = "4" =>
            /\ hdrFile[s] = SweepStartHdr("4")
            /\ dataFile[s] = SweepStartData

\* The sweep returned after removing an old session next to a current one.
C11_Witness ==
    /\ sweepPC = "done"
    /\ \E s, t \in SIDs :
         /\ disk0[s] = "4" /\ hdrFile[s].exists /\ dataFile[s].exists
         /\ disk0[t] = "3" /\ ~hdrFile[t].exists /\ ~dataFile[t].exists

(***************************************************************************)
(* Further properties of the resume skip predicate                         *)
(***************************************************************************)
\* A step that is a call of the predicate with the empty URL: the process
\* dies in it, or the call is recorded with the URL "".
EmptyCallStep ==
    \/ skipFatal' # skipFatal
    \/ /\ Len(skipCalls') > Len(skipCalls)
       /\ skipCalls'[Len(skipCalls')] = ""

\* C15: a call of the skip predicate with the empty URL fails fatally with
\* InvalidArgument, whatever the marker and the state of the predicate: it
\* returns neither true nor false and leaves the predicate's state as it was.
C15_EmptyURLFatal ==
    [][EmptyCallStep =>
          /\ skipFatal'
          /\ skipResults' = skipResults
          /\ copied' = copied
          /\ lastCopied' = lastCopied]_vars

\* The empty URL was presented after the marker had ended the skipping.
C15_Witness ==
    /\ skipFatal
    /\ lastCopied # ""
    /\ ~copied
    /\ Len(skipResults) = Len(skipCalls)
    /\ Len(skipCalls) > 1

(***************************************************************************)
(* Further properties of the sync fan-out planner                          *)
(***************************************************************************)
\* C16: the planner emits an error entry for a target only when the
\* classifier returns a shape outside A-E; a target classified as shape D
\* or E contributes job entries and never an InvalidArgument entry.
C16_ErrorOnlyOutsideShapes ==
    \A i \in 1..Len(received) :
        /\ received[i].kind = "error" =>
              guessCopyURLType(received[i].url) \notin {"A", "B", "C", "D", "E"}
        /\ guessCopyURLType(received[i].url) \in {"D", "E"} =>
              received[i].kind = "job"

(***************************************************************************)
(* Further properties of the session manager                               *)
(***************************************************************************)
\* A step that is a save of session s right after a save of s that returned
\* nil: no write and no header change lies between the two calls.
SaveAfterSave(s) ==
    /\ last.op = "save" /\ last.sid = s /\ last.res = "ok"
    /\ last'.op = "save" /\ last'.sid = s /\ last'.pop = "save"

InBody(t) == tpc[t].at \notin {"idle", "lock"}

\* C13: of the tasks calling save, close and delete on one session at most
\* one is inside a method body; a task inside a body holds the mutex, from
\* before its first access until it returns, and no task holds the mutex
\* after it returned, with or without an error.
C13_MutualExclusion ==
    /\ \A t, u \in Tasks : InBody(t) /\ InBody(u) => t = u
    /\ \A t \in Tasks : InBody(t) <=> mutex = t

\* One task is removing the header file in Delete while a save and a close
\* of two other tasks wait in Lock.
C13_Witness ==
    \E t, u, v \in Tasks :
        /\ tpc[t] = At("delete", "rmhdr") /\ mutex = t
        /\ tpc[u] = At("save", "lock")
        /\ tpc[v] = At("close", "lock")

\* C14: the data log is append-only: whatever NewDataWriter, NewDataReader,
\* write and read calls are made, the contents of the data log before a
\* write are a prefix of its contents after the write.
C14_AppendOnly ==
    [][\A s \in SessIDs :
         dataFile[s].exists /\ dataFile'[s].exists =>
            IsPrefix(dataFile[s].content, dataFile'[s].content)]_vars

\* A step in which a Write on the open data log of a loaded session s runs
\* its File.Write.
WriteOnLoaded(s) ==
    /\ sess[s].live /\ sess[s].loaded /\ sess[s].open
    /\ dataFile[s].exists
    /\ sess[s].wpend # ""
    /\ last'.op = "write" /\ last'.sid = s /\ last'.res # ""

\* C17: after a successful load the data log is open for reading and for
\* writing: a write through the data writer succeeds, and its bytes are in
\* the data log a later reader sees.
C17_LoadedLogWritable ==
    [][\A s \in SessIDs :
         WriteOnLoaded(s) =>
            /\ last'.res = "ok"
            /\ sess[s].off < ContentLen(dataFile'[s])
            /\ dataFile'[s].content[sess[s].off + 1] = sess[s].wpend]_vars

\* A step that is a call of Save on session s.
SaveStep(s) == last'.op = "save" /\ last'.sid = s

\* C18: a save whose flush fails returns a non-fatal error, leaves the
\* dirty flag set and leaves the header file as it was; the dirty flag of a
\* data-log handle is cleared only by a save whose flush succeeded.
C18_FailedFlush ==
    [][\A s \in SessIDs :
         (sess[s].live /\ sess'[s].live /\ sess[s].dirty) =>
            /\ (SaveStep(s) /\ sess'[s].dirty) =>
                  /\ last'.res = "IOError"
                  /\ ~dead'
                  /\ hdrFile' = hdrFile
                  /\ dataFile' = dataFile
            /\ (~sess'[s].dirty /\ last'.op # "load") =>
                  /\ SaveStep(s)
                  /\ sess[s].open
                  /\ dataFile'[s] = SyncFile(dataFile[s])]_vars

\* A save found the open data log dirty, its flush failed, and the header
\* file still holds the header of before the progress made since.
C18_Witness ==
    /\ last.op = "save" /\ last.res = "IOError"
    /\ last.sid \in SessIDs
    /\ sess[last.sid].live /\ sess[last.sid].open /\ sess[last.sid].dirty
    /\ hdrFile[last.sid].exists
    /\ hdrFile[last.sid] # HdrFileOf(sess[last.sid].Header)
    /\ ~dead

\* C19: in every reachable state, also while a write interleaves with a
\* save, a false dirty flag means that every byte written to the data log
\* so far has been flushed.
C19_CleanMeansFlushed ==
    \A s \in SessIDs :
        (sess[s].live /\ ~sess[s].deleted /\ dataFile[s].exists /\ ~sess[s].dirty) =>
            dataFile[s].durable = dataFile[s].content

\* C20: in every on-disk state that create, save, close and delete produce,
\* a delete that stops at a failed removal included, a session whose header
\* file exists has its data-log file too, so that load never finds a header
\* without a data log.
C20_HeaderHasDataLog ==
    \A s \in SIDs : hdrFile[s].exists => dataFile[s].exists

====
